---- MODULE Spec2Model ----
(***************************************************************************)
(* A model of the XLA dispatch and execution layer of jax:                 *)
(*   jax/interpreters/xla.py  (lowering, compilation caches, executor,     *)
(*                             device-persistent values)                   *)
(*   jax/lib/xla_bridge.py    (backend handle, compile options)            *)
(*                                                                         *)
(* The module holds one state machine per component.  Every component has  *)
(* its own specification (SpecDevice, SpecBackend, ...) whose actions      *)
(* leave the variables of the other components unchanged.                  *)
(***************************************************************************)
EXTENDS Integers, Sequences, FiniteSets, TLC

VARIABLES
    \* ---- device-persistent data (xla.py, DeviceValue / DeviceArray)
    wrappers,       \* DeviceArray instance -> its slots
    buffers,        \* backend buffer id -> backend-side state
    to_py_calls,    \* DeviceArray instance -> number of device_buffer.to_py() calls
    value_reads,    \* DeviceArray instance -> number of reads of _value
    dev_result,     \* what the last operation on a DeviceArray did
    \* ---- backend handle (xla_bridge.py, get_backend)
    jax_xla_backend,  \* FLAGS.jax_xla_backend
    memo_cache,     \* the cache of util.memoize around get_backend
    backend_lock,   \* _backend_lock: the thread holding it, or Unlocked
    pc,             \* thread -> where it is in get_backend
    ans,            \* thread -> the backend its call of the factory returned
    returned,       \* thread -> what its last get_backend() call returned
    calls,          \* thread -> number of get_backend() calls it has started
    factory_calls,  \* number of times a backend factory has been invoked
    \* ---- axis environments (xla.py, AxisEnv)
    axis_env,       \* the current AxisEnv(nreps, names, sizes)
    outer_env,      \* the AxisEnv the current one was extended from
    axis_result,    \* what the last operation on the axis environment did
    \* ---- translation tables and single-primitive compilation (xla.py)
    tables,         \* the five translation tables: table name -> primitives in it
    registrations,  \* number of rules registered after import
    callable_cache, \* the cache of @cache() around xla_primitive_callable
    computation_cache,  \* the cache of @cache() around primitive_computation
    build_runs,     \* key -> c.Build() calls of primitive_computation
    compile_runs,   \* key -> backend Compile calls of xla_primitive_callable
    prim_calls,     \* number of xla_primitive_callable calls made
    prim_result,    \* what the last xla_primitive_callable call did
    \* ---- lowering and whole-program compilation (xla.py)
    lower_result,   \* what the last jaxpr_computation call did
    compile_result, \* what the last compile_jaxpr call did
    \* ---- executor (xla.py)
    jax_debug_nans, \* FLAGS.jax_debug_nans
    exec_result,    \* what the last execution did
    exec_trace,     \* the backend calls the last execution made, in order
    \* ---- helper functions of lowering and compilation (xla.py, xla_bridge.py)
    call_result     \* the last call of a helper function: arguments and result

dev_vars == <<wrappers, buffers, to_py_calls, value_reads, dev_result>>
backend_vars == <<jax_xla_backend, memo_cache, backend_lock, pc, ans, returned,
                  calls, factory_calls>>

axis_vars == <<axis_env, outer_env, axis_result>>

table_vars == <<tables, registrations>>
cache_vars == <<callable_cache, computation_cache, build_runs, compile_runs,
                prim_calls, prim_result>>

lower_vars == <<lower_result, compile_result>>

exec_vars == <<jax_debug_nans, exec_result, exec_trace>>

call_vars == <<call_result>>

vars == <<dev_vars, backend_vars, axis_vars, table_vars, cache_vars, lower_vars,
          exec_vars, call_vars>>

\* what the actions of one component leave alone
not_dev_vars == <<backend_vars, axis_vars, table_vars, cache_vars, lower_vars,
    exec_vars, call_vars>>
not_backend_vars == <<dev_vars, axis_vars, table_vars, cache_vars, lower_vars,
    exec_vars, call_vars>>
not_axis_vars == <<dev_vars, backend_vars, table_vars, cache_vars, lower_vars,
    exec_vars, call_vars>>
not_table_vars == <<dev_vars, backend_vars, axis_vars, cache_vars, lower_vars,
    exec_vars, call_vars>>
not_cache_vars == <<dev_vars, backend_vars, axis_vars, table_vars, lower_vars,
    exec_vars, call_vars>>
not_lower_vars == <<dev_vars, backend_vars, axis_vars, table_vars, cache_vars,
    exec_vars, call_vars>>
not_exec_vars == <<dev_vars, backend_vars, axis_vars, table_vars, cache_vars,
    lower_vars, call_vars>>
not_call_vars == <<dev_vars, backend_vars, axis_vars, table_vars, cache_vars,
    lower_vars, exec_vars>>

(***************************************************************************)
(* Bounds of the model.                                                    *)
(***************************************************************************)
NumValues == 1      \* DeviceArray instances
MaxBufs == 2        \* backend buffers ever allocated
MaxReads == 2       \* reads of _value per instance
NumDevices == 2     \* device ordinals 0 .. NumDevices-1
NumThreads == 2     \* threads calling get_backend
MaxCalls == 2       \* get_backend() calls per thread
MaxReplicas == 6    \* replica count of an axis environment
MaxAxes == 2        \* axes pushed onto an axis environment
MaxAxisSize == 3    \* size of one axis
MaxRegistrations == 1   \* translation rules registered after import
MaxPrimCalls == 2   \* calls of xla_primitive_callable
MaxEqns == 1        \* equations of one jaxpr
MaxOutputs == 3     \* output buffers of one execution
MaxArgs == 2        \* arguments of one execution
MaxReplicaEqns == 2 \* equations of a program given to jaxpr_replicas
MaxConsts == 2      \* constant values given to one lowering
MaxAssignment == 3  \* length of a device assignment
MaxVars == 3        \* constvars, freevars and invars of a nested program, each

Values == 1..NumValues
BufIds == 1..MaxBufs
Devices == 0..(NumDevices - 1)
Threads == 1..NumThreads

(***************************************************************************)
(* Python values and exceptions.                                           *)
(***************************************************************************)
\* device_buffer = None
NoBuffer == 0
\* _npy_value = None
NoValue == "None"
\* ValueError("DeviceValue has been deleted.")
UseAfterDelete == "ValueError: DeviceValue has been deleted."
\* attribute access or method call on None
AttributeErrorNone == "AttributeError: 'NoneType' object has no attribute"
Ok == "ok"

\* abstract values (ShapedArray): shape and dtype
Avals == {[shape |-> <<>>, dtype |-> "float32"],
          [shape |-> <<2, 3>>, dtype |-> "int32"]}

RECURSIVE prod(_)
prod(xs) == IF xs = <<>> THEN 1 ELSE Head(xs) * prod(Tail(xs))

(***************************************************************************)
(* DeviceValue / DeviceArray                                               *)
(***************************************************************************)
NoWrapper == [exists |-> FALSE, aval |-> [shape |-> <<>>, dtype |-> "float32"],
              device_buffer |-> NoBuffer, npy_value |-> NoValue]
\* data: the contents of a buffer, named after the buffer they were first
\* written to (a copy to another device holds the contents of its source)
NoBackendBuffer == [allocated |-> FALSE, device |-> 0, data |-> "None", released |-> 0]

ContentsOf(b) == <<"contents", b>>

AllocatedBufs == {b \in BufIds : buffers[b].allocated}
\* the id the backend gives the next buffer it allocates
NextBuf == Cardinality(AllocatedBufs) + 1

DevResult(op, v, status, value) ==
    [op |-> op, self |-> v,
     deleted_before |-> (wrappers[v].device_buffer = NoBuffer),
     status |-> status, value |-> value]

\* DeviceValue._check_if_deleted: TRUE when it raises
check_if_deleted_raises(v) == wrappers[v].device_buffer = NoBuffer

\* Buffer.to_py(): the host copy of a backend buffer
to_py(b) == buffers[b].data

\* DeviceArray.__init__ applied (by a result handler) to a buffer the backend
\* has just produced on device d.
DeviceArray_init(v, a, d, skip_checks) ==
    /\ ~wrappers[v].exists
    /\ NextBuf <= MaxBufs
    /\ LET b == NextBuf IN
       /\ buffers' = [buffers EXCEPT ![b] =
              [allocated |-> TRUE, device |-> d, data |-> ContentsOf(b), released |-> 0]]
       /\ wrappers' = [wrappers EXCEPT ![v] =
              [exists |-> TRUE, aval |-> a, device_buffer |-> b,
               npy_value |-> IF skip_checks THEN NoValue ELSE ContentsOf(b)]]
       /\ to_py_calls' = [to_py_calls EXCEPT ![v] = IF skip_checks THEN 0 ELSE 1]
       /\ value_reads' = [value_reads EXCEPT ![v] = IF skip_checks THEN 0 ELSE 1]
       /\ dev_result' = [op |-> "__init__", self |-> v, deleted_before |-> FALSE,
                         status |-> Ok, value |-> <<b>>]
    /\ UNCHANGED not_dev_vars

\* _value without the test of the cached host value: every read transfers
value_property_uncached(v) ==
    IF check_if_deleted_raises(v)
    THEN [npy |-> wrappers[v].npy_value, transfer |-> 0,
          status |-> UseAfterDelete, value |-> <<>>]
    ELSE [npy |-> wrappers[v].npy_value, transfer |-> 1,
          status |-> Ok, value |-> <<to_py(wrappers[v].device_buffer)>>]

\* What one evaluation of the property DeviceArray._value does to instance v:
\* the new cached host value, whether to_py was called, and the outcome.
value_property(v) ==
    IF check_if_deleted_raises(v)
    THEN [npy |-> wrappers[v].npy_value, transfer |-> 0,
          status |-> UseAfterDelete, value |-> <<>>]
    ELSE IF wrappers[v].npy_value = NoValue
    THEN [npy |-> to_py(wrappers[v].device_buffer), transfer |-> 1,
          status |-> Ok, value |-> <<to_py(wrappers[v].device_buffer)>>]
    ELSE [npy |-> wrappers[v].npy_value, transfer |-> 0,
          status |-> Ok, value |-> <<wrappers[v].npy_value>>]

\* a read of the host value (x._value, __array__, __float__, ...)
value_read(v) ==
    /\ wrappers[v].exists
    /\ value_reads[v] < MaxReads
    /\ LET r == value_property(v) IN
       /\ wrappers' = [wrappers EXCEPT ![v].npy_value = r.npy]
       /\ to_py_calls' = [to_py_calls EXCEPT ![v] = @ + r.transfer]
       /\ value_reads' = [value_reads EXCEPT ![v] = @ + 1]
       /\ dev_result' = DevResult("_value", v, r.status, r.value)
    /\ UNCHANGED buffers
    /\ UNCHANGED not_dev_vars

block_until_ready(v) ==
    /\ wrappers[v].exists
    /\ dev_result' = DevResult("block_until_ready", v,
           IF check_if_deleted_raises(v) THEN UseAfterDelete ELSE Ok, <<>>)
    /\ UNCHANGED <<wrappers, buffers, to_py_calls, value_reads>>
    /\ UNCHANGED not_dev_vars

copy_to_host_async(v) ==
    /\ wrappers[v].exists
    /\ dev_result' = DevResult("copy_to_host_async", v,
           IF check_if_deleted_raises(v) THEN UseAfterDelete ELSE Ok, <<>>)
    /\ UNCHANGED <<wrappers, buffers, to_py_calls, value_reads>>
    /\ UNCHANGED not_dev_vars

shape(v) ==
    /\ wrappers[v].exists
    /\ dev_result' = DevResult("shape", v, Ok, wrappers[v].aval.shape)
    /\ UNCHANGED <<wrappers, buffers, to_py_calls, value_reads>>
    /\ UNCHANGED not_dev_vars

dtype(v) ==
    /\ wrappers[v].exists
    /\ dev_result' = DevResult("dtype", v, Ok, <<wrappers[v].aval.dtype>>)
    /\ UNCHANGED <<wrappers, buffers, to_py_calls, value_reads>>
    /\ UNCHANGED not_dev_vars

size(v) ==
    /\ wrappers[v].exists
    /\ dev_result' = DevResult("size", v, Ok, <<prod(wrappers[v].aval.shape)>>)
    /\ UNCHANGED <<wrappers, buffers, to_py_calls, value_reads>>
    /\ UNCHANGED not_dev_vars

ndim(v) ==
    /\ wrappers[v].exists
    /\ dev_result' = DevResult("ndim", v, Ok, <<Len(wrappers[v].aval.shape)>>)
    /\ UNCHANGED <<wrappers, buffers, to_py_calls, value_reads>>
    /\ UNCHANGED not_dev_vars

\* DeviceArray.delete: self.device_buffer.delete() comes first and raises when
\* device_buffer is None, before either slot is assigned.
delete(v) ==
    /\ wrappers[v].exists
    /\ IF wrappers[v].device_buffer = NoBuffer
       THEN /\ dev_result' = DevResult("delete", v, AttributeErrorNone, <<>>)
            /\ UNCHANGED <<wrappers, buffers>>
       ELSE /\ buffers' = [buffers EXCEPT ![wrappers[v].device_buffer].released = @ + 1]
            /\ wrappers' = [wrappers EXCEPT ![v].device_buffer = NoBuffer,
                                            ![v].npy_value = NoValue]
            /\ dev_result' = DevResult("delete", v, Ok, <<>>)
    /\ UNCHANGED <<to_py_calls, value_reads>>
    /\ UNCHANGED not_dev_vars

\* device_put that copies whatever device the buffer is on
device_put_always_copies(v, device_num) ==
    /\ wrappers[v].exists
    /\ LET b == wrappers[v].device_buffer IN
       IF b = NoBuffer
       THEN /\ dev_result' = DevResult("device_put", v, AttributeErrorNone, <<>>)
            /\ UNCHANGED buffers
       ELSE /\ NextBuf <= MaxBufs
            /\ buffers' = [buffers EXCEPT ![NextBuf] =
                   [allocated |-> TRUE, device |-> device_num,
                    data |-> buffers[b].data, released |-> 0]]
            /\ dev_result' = DevResult("device_put", v, Ok, <<NextBuf>>)
    /\ UNCHANGED <<wrappers, to_py_calls, value_reads>>
    /\ UNCHANGED not_dev_vars

\* device_put(x, device_num) for a DeviceArray x: canonicalize_dtype is the
\* identity and the handler is _device_put_device_array.
device_put(v, device_num) ==
    /\ wrappers[v].exists
    /\ LET b == wrappers[v].device_buffer IN
       IF b = NoBuffer
       THEN /\ dev_result' = DevResult("device_put", v, AttributeErrorNone, <<>>)
            /\ UNCHANGED buffers
       ELSE IF buffers[b].device = device_num
       THEN /\ dev_result' = DevResult("device_put", v, Ok, <<b>>)
            /\ UNCHANGED buffers
       ELSE /\ NextBuf <= MaxBufs
            /\ buffers' = [buffers EXCEPT ![NextBuf] =
                   [allocated |-> TRUE, device |-> device_num,
                    data |-> buffers[b].data, released |-> 0]]
            /\ dev_result' = DevResult("device_put", v, Ok, <<NextBuf>>)
    /\ UNCHANGED <<wrappers, to_py_calls, value_reads>>
    /\ UNCHANGED not_dev_vars

InitDevice ==
    /\ wrappers = [v \in Values |-> NoWrapper]
    /\ buffers = [b \in BufIds |-> NoBackendBuffer]
    /\ to_py_calls = [v \in Values |-> 0]
    /\ value_reads = [v \in Values |-> 0]
    /\ dev_result = [op |-> "none", self |-> 1, deleted_before |-> FALSE,
                     status |-> Ok, value |-> <<>>]

NextDevice ==
    \/ \E v \in Values, a \in Avals, d \in Devices, s \in BOOLEAN :
          DeviceArray_init(v, a, d, s)
    \/ \E v \in Values : value_read(v)
    \/ \E v \in Values : block_until_ready(v)
    \/ \E v \in Values : copy_to_host_async(v)
    \/ \E v \in Values : shape(v)
    \/ \E v \in Values : dtype(v)
    \/ \E v \in Values : size(v)
    \/ \E v \in Values : ndim(v)
    \/ \E v \in Values : delete(v)
    \/ \E v \in Values, n \in Devices : device_put(v, n)

(***************************************************************************)
(* Backend handle: get_backend                                             *)
(*                                                                         *)
(*   _backend_lock = threading.Lock()                                      *)
(*   @util.memoize                                                         *)
(*   def get_backend():                                                    *)
(*     with _backend_lock: ...                                             *)
(*                                                                         *)
(* util.memoize is not part of the sources at hand.  It is modelled as a   *)
(* memo table read without a lock (a hit returns the cached value, a miss  *)
(* calls the wrapped function and stores what it returns; an exception is  *)
(* not stored).  The lock is the one the wrapped function takes.           *)
(***************************************************************************)
Unlocked == 0
NoBackend == 0
\* _backends after the two register_backend calls
RegisteredBackends == {"xla", "xrt"}
BackendFlagValues == RegisteredBackends \cup {"bogus"}
UnknownBackend == "ValueError: Unknown jax_xla_backend value"

\* memoized_fun: the lookup of the memo table
memoized_fun_lookup(t) ==
    /\ pc[t] = "idle"
    /\ calls[t] < MaxCalls
    /\ calls' = [calls EXCEPT ![t] = @ + 1]
    /\ IF memo_cache # NoBackend
       THEN /\ returned' = [returned EXCEPT ![t] = <<Ok, memo_cache>>]
            /\ UNCHANGED pc
       ELSE /\ pc' = [pc EXCEPT ![t] = "acquire"]
            /\ UNCHANGED returned
    /\ UNCHANGED <<jax_xla_backend, memo_cache, backend_lock, ans, factory_calls>>
    /\ UNCHANGED not_backend_vars

\* with _backend_lock: (entry)
acquire_backend_lock(t) ==
    /\ pc[t] = "acquire"
    /\ backend_lock = Unlocked
    /\ backend_lock' = t
    /\ pc' = [pc EXCEPT ![t] = "locked"]
    /\ UNCHANGED <<jax_xla_backend, memo_cache, ans, returned, calls, factory_calls>>
    /\ UNCHANGED not_backend_vars

\* the body of get_backend: _backends.get(...), then the factory call, or the
\* ValueError, which leaves the with block and releases the lock
get_backend_body(t) ==
    /\ pc[t] = "locked"
    /\ IF jax_xla_backend \in RegisteredBackends
       THEN /\ factory_calls' = factory_calls + 1
            /\ ans' = [ans EXCEPT ![t] = factory_calls + 1]
            /\ pc' = [pc EXCEPT ![t] = "release"]
            /\ UNCHANGED <<backend_lock, returned>>
       ELSE /\ backend_lock' = Unlocked
            /\ returned' = [returned EXCEPT ![t] = <<UnknownBackend, NoBackend>>]
            /\ pc' = [pc EXCEPT ![t] = "idle"]
            /\ UNCHANGED <<ans, factory_calls>>
    /\ UNCHANGED <<jax_xla_backend, memo_cache, calls>>
    /\ UNCHANGED not_backend_vars

\* return backend(): leaving the with block releases the lock
release_backend_lock(t) ==
    /\ pc[t] = "release"
    /\ backend_lock' = Unlocked
    /\ pc' = [pc EXCEPT ![t] = "store"]
    /\ UNCHANGED <<jax_xla_backend, memo_cache, ans, returned, calls, factory_calls>>
    /\ UNCHANGED not_backend_vars

\* memoized_fun: store what the wrapped function returned, and return it
memoized_fun_store(t) ==
    /\ pc[t] = "store"
    /\ memo_cache' = ans[t]
    /\ returned' = [returned EXCEPT ![t] = <<Ok, ans[t]>>]
    /\ pc' = [pc EXCEPT ![t] = "idle"]
    /\ UNCHANGED <<jax_xla_backend, backend_lock, ans, calls, factory_calls>>
    /\ UNCHANGED not_backend_vars

InitBackendState ==
    /\ memo_cache = NoBackend
    /\ backend_lock = Unlocked
    /\ pc = [t \in Threads |-> "idle"]
    /\ ans = [t \in Threads |-> NoBackend]
    /\ returned = [t \in Threads |-> <<"none", NoBackend>>]
    /\ calls = [t \in Threads |-> 0]
    /\ factory_calls = 0

\* flags.DEFINE_string('jax_xla_backend', 'xla', ...)
InitBackend == jax_xla_backend = "xla" /\ InitBackendState

NextBackend ==
    \/ \E t \in Threads : memoized_fun_lookup(t)
    \/ \E t \in Threads : acquire_backend_lock(t)
    \/ \E t \in Threads : get_backend_body(t)
    \/ \E t \in Threads : release_backend_lock(t)
    \/ \E t \in Threads : memoized_fun_store(t)

(***************************************************************************)
(* Axis environments and replica groups                                    *)
(*                                                                         *)
(* Axis indices are those of the code: 0-based positions in names/sizes.   *)
(***************************************************************************)
AxisNames == {"i", "j"}
AxisEnv(nreps, names, sizes) == [nreps |-> nreps, names |-> names, sizes |-> sizes]

extend_axis_env_value(env, name, sz) ==
    AxisEnv(env.nreps, Append(env.names, name), Append(env.sizes, sz))

\* the indices the generator of axis_read ranges over
axis_positions(env, axis_name) ==
    {i \in 0..(Len(env.names) - 1) : env.names[i + 1] = axis_name}

SetMax(S) == CHOOSE x \in S : \A y \in S : y <= x
SetMin(S) == CHOOSE x \in S : \A y \in S : x <= y

\* the outermost binding instead of the innermost
axis_read_outermost(env, axis_name) == SetMin(axis_positions(env, axis_name))

\* axis_read: max() of the positions bound to the name (max of nothing raises)
axis_read(env, axis_name) == SetMax(axis_positions(env, axis_name))

\* numpy: flat (row-major) index <-> multi-index for a shape
RECURSIVE ravel_index(_, _)
ravel_index(idx, shp) ==
    IF shp = <<>> THEN 0
    ELSE LET n == Len(shp) IN
         ravel_index(SubSeq(idx, 1, n - 1), SubSeq(shp, 1, n - 1)) * shp[n] + idx[n]

RECURSIVE unravel_index(_, _)
unravel_index(p, shp) ==
    IF shp = <<>> THEN <<>>
    ELSE LET n == Len(shp) IN
         Append(unravel_index(p \div shp[n], SubSeq(shp, 1, n - 1)), p % shp[n])

\* the axes 0..n-1 that are not among `taken`, ascending
RECURSIVE remaining_axes(_, _, _)
remaining_axes(k, n, taken) ==
    IF k >= n THEN <<>>
    ELSE (IF \E q \in 1..Len(taken) : taken[q] = k THEN <<>> ELSE <<k>>)
             \o remaining_axes(k + 1, n, taken)

\* onp.moveaxis(a, source, arange(len(source))) transposes a by this order
moveaxis_order(n, source) == source \o remaining_axes(0, n, source)

\* onp.take(full_spec, mesh_axes)
take(full_spec, mesh_axes) == [q \in 1..Len(mesh_axes) |-> full_spec[mesh_axes[q] + 1]]

\* element p (flat, row-major) of moveaxis(iota, mesh_axes, ...), where iota
\* holds at every position its own flat index
moved_element(p, full_spec, order) ==
    LET pshape == [q \in 1..Len(order) |-> full_spec[order[q] + 1]]
        m == unravel_index(p, pshape)
        idx == [a \in 1..Len(full_spec) |->
                   m[CHOOSE q \in 1..Len(order) : order[q] = a - 1]]
    IN ravel_index(idx, full_spec)

\* _axis_groups with the final transposition left out: the rows of `groups`
axis_groups_untransposed(nrep, mesh_spec, mesh_axes) ==
    LET trailing_size == nrep \div prod(mesh_spec)
        full_spec == Append(mesh_spec, trailing_size)
        order == moveaxis_order(Len(full_spec), mesh_axes)
        rows == prod(take(full_spec, mesh_axes))
        cols == prod(full_spec) \div rows
    IN [i \in 1..rows |-> [j \in 1..cols |->
           moved_element((i - 1) * cols + (j - 1), full_spec, order)]]

\* _axis_groups over the mesh axes alone, without the trailing axis
axis_groups_without_trailing(nrep, mesh_spec, mesh_axes) ==
    LET full_spec == mesh_spec
        order == moveaxis_order(Len(full_spec), mesh_axes)
        rows == prod(take(full_spec, mesh_axes))
        cols == prod(full_spec) \div rows
    IN [j \in 1..cols |-> [i \in 1..rows |->
           moved_element((i - 1) * cols + (j - 1), full_spec, order)]]

\* _axis_groups, for nrep a multiple of prod(mesh_spec) and distinct mesh_axes:
\* tuple(map(tuple, groups.T)) where groups = reshape(moveaxis(iota, ...),
\* (prod(take(full_spec, mesh_axes)), -1))
_axis_groups(nrep, mesh_spec, mesh_axes) ==
    LET trailing_size == nrep \div prod(mesh_spec)
        full_spec == Append(mesh_spec, trailing_size)
        order == moveaxis_order(Len(full_spec), mesh_axes)
        rows == prod(take(full_spec, mesh_axes))
        cols == prod(full_spec) \div rows
    IN [j \in 1..cols |-> [i \in 1..rows |->
           moved_element((i - 1) * cols + (j - 1), full_spec, order)]]

AxisNameError == "ValueError: max() arg is an empty sequence"
RaggedError == "AssertionError"
RepeatedAxisError == "ValueError: repeated axis in source argument"

\* axis_groups(axis_env, name), name a single axis name or a list of names
\* (given here as the sequence of the names)
axis_groups_outcome(env, names) ==
    IF \E q \in 1..Len(names) : axis_positions(env, names[q]) = {}
    THEN [status |-> AxisNameError, groups |-> <<>>, mesh_axes |-> <<>>]
    ELSE LET mesh_axes == [q \in 1..Len(names) |-> axis_read(env, names[q])] IN
         IF env.nreps % prod(env.sizes) # 0
         THEN [status |-> RaggedError, groups |-> <<>>, mesh_axes |-> mesh_axes]
         ELSE IF \E q, r \in 1..Len(mesh_axes) : q # r /\ mesh_axes[q] = mesh_axes[r]
         THEN [status |-> RepeatedAxisError, groups |-> <<>>, mesh_axes |-> mesh_axes]
         ELSE [status |-> Ok,
               groups |-> _axis_groups(env.nreps, env.sizes, mesh_axes),
               mesh_axes |-> mesh_axes]

\* AxisEnv(nreps, [], []): the environment a whole-program compilation starts from
new_axis_env(n) ==
    /\ axis_env' = AxisEnv(n, <<>>, <<>>)
    /\ outer_env' = AxisEnv(n, <<>>, <<>>)
    /\ axis_result' = [op |-> "AxisEnv", names |-> <<>>, status |-> Ok,
                       groups |-> <<>>, mesh_axes |-> <<>>]
    /\ UNCHANGED not_axis_vars

\* entering a mapped scope: the scope works with extend_axis_env(env, name, size)
extend_axis_env(name, sz) ==
    /\ Len(axis_env.names) < MaxAxes
    /\ axis_env' = extend_axis_env_value(axis_env, name, sz)
    /\ outer_env' = axis_env
    /\ axis_result' = [op |-> "extend_axis_env", names |-> <<name>>, status |-> Ok,
                       groups |-> <<>>, mesh_axes |-> <<>>]
    /\ UNCHANGED not_axis_vars

axis_groups(names) ==
    /\ LET r == axis_groups_outcome(axis_env, names) IN
       axis_result' = [op |-> "axis_groups", names |-> names, status |-> r.status,
                       groups |-> r.groups, mesh_axes |-> r.mesh_axes]
    /\ UNCHANGED <<axis_env, outer_env>>
    /\ UNCHANGED not_axis_vars

\* what a collective can name: one axis name, or a list of up to two
AxisNameLists == {<<a>> : a \in AxisNames} \cup {<<a, b>> : a \in AxisNames, b \in AxisNames}

InitAxis ==
    /\ axis_env = AxisEnv(1, <<>>, <<>>)
    /\ outer_env = AxisEnv(1, <<>>, <<>>)
    /\ axis_result = [op |-> "AxisEnv", names |-> <<>>, status |-> Ok,
                      groups |-> <<>>, mesh_axes |-> <<>>]

NextAxis ==
    \/ \E n \in 1..MaxReplicas : new_axis_env(n)
    \/ \E a \in AxisNames, sz \in 1..MaxAxisSize : extend_axis_env(a, sz)
    \/ \E names \in AxisNameLists : axis_groups(names)

(***************************************************************************)
(* Translation tables                                                      *)
(***************************************************************************)
\* add_jaxvals has a generic rule and xla_call a call-style rule from import
\* on; "custom" stands for a primitive defined elsewhere, with no rule yet.
Primitives == {"add_jaxvals", "xla_call", "custom"}

\* the tables in the order in which _jaxpr_computation consults them;
\* backend_specific_translations stands for the table of the backend's platform
TableOrder == <<"backend_specific_translations", "translations",
                "initial_style_translations", "parallel_translations",
                "call_translations">>
TableNames == {TableOrder[q] : q \in 1..Len(TableOrder)}

\* the tables as this module leaves them at import
InitTables ==
    /\ tables = [n \in TableNames |->
                   IF n = "translations" THEN {"add_jaxvals"}
                   ELSE IF n = "call_translations" THEN {"xla_call"}
                   ELSE {}]
    /\ registrations = 0

\* translations[p] = rule, and the same for the other tables
register_translation(n, prim) ==
    /\ registrations < MaxRegistrations
    /\ prim \notin tables[n]
    /\ tables' = [tables EXCEPT ![n] = @ \cup {prim}]
    /\ registrations' = registrations + 1
    /\ UNCHANGED not_table_vars

\* xla_call_p.multiple_results = True; core.Primitive defaults to False
multiple_results(prim) == prim = "xla_call"

(***************************************************************************)
(* Single-primitive compilation: xla_primitive_callable and                *)
(* primitive_computation, both behind @cache()                             *)
(*                                                                         *)
(* util.cache is not part of the sources at hand.  It is modelled as the   *)
(* spec describes the compilation cache: entries keyed by the arguments,   *)
(* kept for the life of the process, nothing stored when the call raises.  *)
(***************************************************************************)
\* abstract values of the arguments: kind of aval and shape
ArgAvals == {[kind |-> "ShapedArray", shape |-> <<>>],
             [kind |-> "ConcreteArray", shape |-> <<>>]}
AbstractSigs == {<<a>> : a \in ArgAvals} \cup
                {<<[kind |-> "ShapedArray", shape |-> <<>>],
                   [kind |-> "ShapedArray", shape |-> <<3>>]>>}
StaticParams == {"params_a", "params_b"}
PrimKeys == [prim : Primitives, args : AbstractSigs, params : StaticParams]

\* aval_to_xla_shape: ShapedArray and ConcreteArray give the same array shape
aval_to_xla_shape(aval) == aval.shape
xla_shapes_of(args) == [q \in 1..Len(args) |-> aval_to_xla_shape(args[q])]
\* the arguments primitive_computation is called (and cached) with
ComputationKey(key) ==
    [prim |-> key.prim, shapes |-> xla_shapes_of(key.args), params |-> key.params]
ComputationKeys == {ComputationKey(k) : k \in PrimKeys}

\* prim.abstract_eval belongs to the primitive, not to this layer; it is taken
\* to reject arguments whose shapes differ, as a shape-inference failure
abstract_eval_ok(key) ==
    \A q, r \in 1..Len(key.args) : key.args[q].shape = key.args[r].shape

AbstractEvalError == "TypeError: abstract_eval"
\* "XLA translation rule for {} not found".format(prim)
NoRuleForPrimitive == "NotImplementedError: XLA translation rule for {} not found"
NoEntry == <<"no entry">>

\* @cache(): whether the memo table holds a result for these arguments
cache_hit(memo, key) == memo[key] # NoEntry
\* @cache(): the memo table after the call for `key` has returned `value`
cache_store(memo, key, value) == [memo EXCEPT ![key] = value]

\* primitive_computation's choice of rule: platform-specific, generic, initial-style
primitive_rule_table(prim) ==
    IF prim \in tables["backend_specific_translations"]
    THEN "backend_specific_translations"
    ELSE IF prim \in tables["translations"] THEN "translations"
    ELSE IF prim \in tables["initial_style_translations"]
    THEN "initial_style_translations"
    ELSE "none"

\* xla_primitive_callable without @cache(): the body runs on every call
xla_primitive_callable_uncached(key) ==
    /\ prim_calls < MaxPrimCalls
    /\ prim_calls' = prim_calls + 1
    /\ LET ck == ComputationKey(key)
           built == cache_hit(computation_cache, ck)
           rule == primitive_rule_table(key.prim)
       IN
       IF ~abstract_eval_ok(key)
       THEN /\ prim_result' = [key |-> key, status |-> AbstractEvalError,
                               callable |-> NoEntry, cached |-> FALSE]
            /\ UNCHANGED <<callable_cache, computation_cache, build_runs, compile_runs>>
       ELSE IF ~built /\ rule = "none"
       THEN /\ prim_result' = [key |-> key, status |-> NoRuleForPrimitive,
                               callable |-> NoEntry, cached |-> FALSE]
            /\ UNCHANGED <<callable_cache, computation_cache, build_runs, compile_runs>>
       ELSE /\ build_runs' = IF built THEN build_runs
                             ELSE [build_runs EXCEPT ![ck] = @ + 1]
            /\ computation_cache' = IF built THEN computation_cache
                  ELSE cache_store(computation_cache, ck, <<"computation", ck, rule>>)
            /\ compile_runs' = [compile_runs EXCEPT ![key] = @ + 1]
            /\ callable_cache' = cache_store(callable_cache, key,
                   <<"compiled", key, compile_runs[key] + 1>>)
            /\ prim_result' = [key |-> key, status |-> Ok,
                   callable |-> <<"compiled", key, compile_runs[key] + 1>>,
                   cached |-> FALSE]
    /\ UNCHANGED not_cache_vars

\* xla_primitive_callable with the graph built and compiled before the
\* abstract evaluation
xla_primitive_callable_build_first(key) ==
    /\ prim_calls < MaxPrimCalls
    /\ prim_calls' = prim_calls + 1
    /\ LET ck == ComputationKey(key)
           built == cache_hit(computation_cache, ck)
           rule == primitive_rule_table(key.prim)
       IN
       IF cache_hit(callable_cache, key)
       THEN /\ prim_result' = [key |-> key, status |-> Ok,
                               callable |-> callable_cache[key], cached |-> TRUE]
            /\ UNCHANGED <<callable_cache, computation_cache, build_runs, compile_runs>>
       ELSE IF ~built /\ rule = "none"
       THEN /\ prim_result' = [key |-> key, status |-> NoRuleForPrimitive,
                               callable |-> NoEntry, cached |-> FALSE]
            /\ UNCHANGED <<callable_cache, computation_cache, build_runs, compile_runs>>
       ELSE /\ build_runs' = IF built THEN build_runs
                             ELSE [build_runs EXCEPT ![ck] = @ + 1]
            /\ computation_cache' = IF built THEN computation_cache
                  ELSE cache_store(computation_cache, ck, <<"computation", ck, rule>>)
            /\ compile_runs' = [compile_runs EXCEPT ![key] = @ + 1]
            /\ IF abstract_eval_ok(key)
               THEN /\ callable_cache' = cache_store(callable_cache, key,
                          <<"compiled", key, compile_runs[key] + 1>>)
                    /\ prim_result' = [key |-> key, status |-> Ok,
                          callable |-> <<"compiled", key, compile_runs[key] + 1>>,
                          cached |-> FALSE]
               ELSE /\ UNCHANGED callable_cache
                    /\ prim_result' = [key |-> key, status |-> AbstractEvalError,
                                       callable |-> NoEntry, cached |-> FALSE]
    /\ UNCHANGED not_cache_vars

\* xla_primitive_callable(prim, *abstract_args, **params), with its @cache()
\* and the call of primitive_computation, with its own @cache(), that it makes.
\* A compiled callable is named by its key and the Compile call that made it.
xla_primitive_callable(key) ==
    /\ prim_calls < MaxPrimCalls
    /\ prim_calls' = prim_calls + 1
    /\ LET ck == ComputationKey(key)
           built == cache_hit(computation_cache, ck)
           rule == primitive_rule_table(key.prim)
       IN
       IF cache_hit(callable_cache, key)
       THEN /\ prim_result' = [key |-> key, status |-> Ok,
                               callable |-> callable_cache[key], cached |-> TRUE]
            /\ UNCHANGED <<callable_cache, computation_cache, build_runs, compile_runs>>
       ELSE IF ~abstract_eval_ok(key)
       THEN /\ prim_result' = [key |-> key, status |-> AbstractEvalError,
                               callable |-> NoEntry, cached |-> FALSE]
            /\ UNCHANGED <<callable_cache, computation_cache, build_runs, compile_runs>>
       ELSE IF ~built /\ rule = "none"
       THEN /\ prim_result' = [key |-> key, status |-> NoRuleForPrimitive,
                               callable |-> NoEntry, cached |-> FALSE]
            /\ UNCHANGED <<callable_cache, computation_cache, build_runs, compile_runs>>
       ELSE /\ build_runs' = IF built THEN build_runs
                             ELSE [build_runs EXCEPT ![ck] = @ + 1]
            /\ computation_cache' = IF built THEN computation_cache
                  ELSE cache_store(computation_cache, ck, <<"computation", ck, rule>>)
            /\ compile_runs' = [compile_runs EXCEPT ![key] = @ + 1]
            /\ callable_cache' = cache_store(callable_cache, key,
                   <<"compiled", key, compile_runs[key] + 1>>)
            /\ prim_result' = [key |-> key, status |-> Ok,
                   callable |-> <<"compiled", key, compile_runs[key] + 1>>,
                   cached |-> FALSE]
    /\ UNCHANGED not_cache_vars

InitCache ==
    /\ callable_cache = [k \in PrimKeys |-> NoEntry]
    /\ computation_cache = [ck \in ComputationKeys |-> NoEntry]
    /\ build_runs = [ck \in ComputationKeys |-> 0]
    /\ compile_runs = [k \in PrimKeys |-> 0]
    /\ prim_calls = 0
    /\ prim_result = [key |-> NoEntry, status |-> "none", callable |-> NoEntry,
                      cached |-> FALSE]

NextCache ==
    \/ \E n \in TableNames, prim \in Primitives : register_translation(n, prim)
    \/ \E key \in PrimKeys : xla_primitive_callable(key)

(***************************************************************************)
(* Lowering a jaxpr: jaxpr_computation / _jaxpr_computation                *)
(***************************************************************************)
\* an equation parameter that is absent from eqn.params
NoParam == "no such parameter"

\* Equations: the primitive, params['axis_name'] (or NoParam) and
\* bound_subjaxprs, a tuple holding no or one nested jaxpr.  A jaxpr is given
\* by the sequence of its equations.
LeafEqns == [primitive : Primitives, axis_name : {"i", NoParam}, bound_subjaxprs : {<<>>}]
RECURSIVE SeqsUpTo(_, _)
SeqsUpTo(S, n) ==
    IF n = 0 THEN {<<>>}
    ELSE LET shorter == SeqsUpTo(S, n - 1) IN
         shorter \cup {Append(q, x) : q \in shorter, x \in S}
\* nested jaxprs: no equation, or one equation of a primitive
LeafJaxprs == {<<>>} \cup
    {<<[primitive |-> prim, axis_name |-> NoParam, bound_subjaxprs |-> <<>>]>> :
        prim \in {"add_jaxvals", "custom"}}
Eqns == LeafEqns \cup
    [primitive : Primitives, axis_name : {"i", NoParam},
     bound_subjaxprs : {<<j>> : j \in LeafJaxprs}]
Jaxprs == SeqsUpTo(Eqns, MaxEqns)

\* the axis environments lowering is called with
LowerAxisEnvs == {AxisEnv(1, <<>>, <<>>), AxisEnv(2, <<"i">>, <<2>>),
                  AxisEnv(3, <<"i">>, <<2>>)}

\* "XLA translation rule for primitive '{}' not found".format(eqn.primitive.name);
\* the outcome of a lowering holds the name the message is formatted with
NoTranslationRule == "NotImplementedError: XLA translation rule for primitive '{}' not found"
AxisNameKeyError == "KeyError: 'axis_name'"
UnpackError == "ValueError: not enough values to unpack"

\* the chain with the generic table consulted before the platform's
translation_table_generic_first(prim) ==
    IF prim \in tables["translations"] THEN "translations"
    ELSE IF prim \in tables["backend_specific_translations"]
    THEN "backend_specific_translations"
    ELSE IF prim \in tables["initial_style_translations"]
    THEN "initial_style_translations"
    ELSE IF prim \in tables["parallel_translations"] THEN "parallel_translations"
    ELSE IF prim \in tables["call_translations"] THEN "call_translations"
    ELSE "none"

\* the if/elif chain of _jaxpr_computation: the table whose rule lowers prim
translation_table(prim) ==
    IF prim \in tables["backend_specific_translations"]
    THEN "backend_specific_translations"
    ELSE IF prim \in tables["translations"] THEN "translations"
    ELSE IF prim \in tables["initial_style_translations"]
    THEN "initial_style_translations"
    ELSE IF prim \in tables["parallel_translations"] THEN "parallel_translations"
    ELSE IF prim \in tables["call_translations"] THEN "call_translations"
    ELSE "none"

RuleCall(eqn, table, groups) ==
    [primitive |-> eqn.primitive, table |-> table, replica_groups |-> groups]

\* Lowering the equations of a jaxpr in order.  The outcome holds the rules
\* invoked (in order, those of nested jaxprs included), the exception that
\* ended the lowering if one did, and the primitive of the equation it ended at.
RECURSIVE lower_eqns(_, _)
lower_eqn(eqn, env) ==
    LET table == translation_table(eqn.primitive) IN
    IF table \in {"backend_specific_translations", "translations",
                  "initial_style_translations"}
    THEN [status |-> Ok, log |-> <<RuleCall(eqn, table, <<>>)>>, at |-> "none",
          named |-> "none"]
    ELSE IF table = "parallel_translations"
    THEN IF eqn.axis_name = NoParam
         THEN [status |-> AxisNameKeyError, log |-> <<>>, at |-> eqn.primitive,
               named |-> "none"]
         ELSE LET g == axis_groups_outcome(env, <<eqn.axis_name>>) IN
              IF g.status # Ok
              THEN [status |-> g.status, log |-> <<>>, at |-> eqn.primitive,
                    named |-> "none"]
              ELSE [status |-> Ok, log |-> <<RuleCall(eqn, table, g.groups)>>,
                    at |-> "none", named |-> "none"]
    ELSE IF table = "call_translations"
    THEN IF eqn.bound_subjaxprs = <<>>
         THEN [status |-> UnpackError, log |-> <<>>, at |-> eqn.primitive,
               named |-> "none"]
         ELSE LET sub == lower_eqns(eqn.bound_subjaxprs[1], env) IN
              [status |-> sub.status,
               log |-> <<RuleCall(eqn, table, <<>>)>> \o sub.log,
               at |-> sub.at, named |-> sub.named]
    ELSE [status |-> NoTranslationRule, log |-> <<>>, at |-> eqn.primitive,
          named |-> eqn.primitive]

lower_eqns(eqns, env) ==
    IF eqns = <<>> THEN [status |-> Ok, log |-> <<>>, at |-> "none", named |-> "none"]
    ELSE LET first == lower_eqn(Head(eqns), env) IN
         IF first.status # Ok THEN first
         ELSE LET rest == lower_eqns(Tail(eqns), env) IN
              [status |-> rest.status, log |-> first.log \o rest.log, at |-> rest.at,
               named |-> rest.named]

NoLowering == [status |-> "none", log |-> <<>>, at |-> "none", named |-> "none"]

\* jaxpr_computation(jaxpr, axis_env, ...)
jaxpr_computation(jaxpr, env) ==
    /\ lower_result.status = "none"
    /\ lower_result' = lower_eqns(jaxpr, env)
    /\ UNCHANGED compile_result
    /\ UNCHANGED not_lower_vars

\* the caller takes the built computation, or the exception
jaxpr_computation_returns ==
    /\ lower_result.status # "none"
    /\ lower_result' = NoLowering
    /\ UNCHANGED compile_result
    /\ UNCHANGED not_lower_vars

(***************************************************************************)
(* Compile options and whole-program compilation                           *)
(***************************************************************************)
\* An optional argument: None, or a value
None == [given |-> FALSE]
Some(x) == [given |-> TRUE, value |-> x]
DeviceAssignments == {None, Some(<<0>>), Some(<<0, 1>>)}
InconsistentReplicas == "ValueError: device_assignment does not match num_replicas"

\* get_compile_options without the comparison of the two arguments
get_compile_options_unchecked(num_replicas, device_assignment) ==
    IF ~num_replicas.given /\ ~device_assignment.given
    THEN [status |-> Ok, options |-> None]
    ELSE [status |-> Ok,
          options |-> [given |-> TRUE, num_replicas |-> num_replicas,
                       device_assignment |-> device_assignment]]

\* xla_bridge.get_compile_options(num_replicas, device_assignment); the
\* options are None, or a CompileOptions with the fields that were set
get_compile_options(num_replicas, device_assignment) ==
    IF device_assignment.given /\ num_replicas.given
       /\ num_replicas.value # Len(device_assignment.value)
    THEN [status |-> InconsistentReplicas, options |-> None]
    ELSE IF ~num_replicas.given /\ ~device_assignment.given
    THEN [status |-> Ok, options |-> None]
    ELSE [status |-> Ok,
          options |-> [given |-> TRUE, num_replicas |-> num_replicas,
                       device_assignment |-> device_assignment]]

\* xb.device_count(): the devices of the backend
device_count == NumDevices

\* raise ValueErrr(...): the name ValueErrr is not defined
ValueErrrNameError == "NameError: name 'ValueErrr' is not defined"
\* the ValueError the message of compile_jaxpr is written for
ReplicaOversubscription ==
    "ValueError: compiling computation that requires {} replicas, but only {} XLA devices are available"

\* The record of a compile_jaxpr call: its arguments, the exception or Ok,
\* what the lowering did, the options and the number of backend Compile calls.
CompileCall(jaxpr, device_assignment, env, status, lowering, options, compile_calls) ==
    [jaxpr |-> jaxpr, device_assignment |-> device_assignment, axis_env |-> env,
     status |-> status, lowering |-> lowering, options |-> options,
     compile_calls |-> compile_calls]

NoCompile == CompileCall(<<>>, None, AxisEnv(1, <<>>, <<>>), "none", NoLowering, None, 0)

\* compile_jaxpr(jaxpr, device_assignment, axis_env, const_vals, *abstract_args)
compile_jaxpr(jaxpr, device_assignment, env) ==
    /\ compile_result.status = "none"
    /\ compile_result' =
          IF env.nreps > device_count
          THEN CompileCall(jaxpr, device_assignment, env, ValueErrrNameError,
                           NoLowering, None, 0)
          ELSE LET built == lower_eqns(jaxpr, env)
                   opts == get_compile_options(Some(env.nreps), device_assignment)
               IN IF built.status # Ok
                  THEN CompileCall(jaxpr, device_assignment, env, built.status,
                                   built, None, 0)
                  ELSE IF opts.status # Ok
                  THEN CompileCall(jaxpr, device_assignment, env, opts.status,
                                   built, None, 0)
                  ELSE CompileCall(jaxpr, device_assignment, env, Ok,
                                   built, opts.options, 1)
    /\ UNCHANGED lower_result
    /\ UNCHANGED not_lower_vars

\* the caller takes the compiled executable, or the exception
compile_jaxpr_returns ==
    /\ compile_result.status # "none"
    /\ compile_result' = NoCompile
    /\ UNCHANGED lower_result
    /\ UNCHANGED not_lower_vars

\* the axis environments compile_jaxpr is called with: AxisEnv(nreps, [], [])
\* from _xla_callable, or one mapped axis spanning the replicas
CompileAxisEnvs ==
    {AxisEnv(n, <<>>, <<>>) : n \in 1..(NumDevices + 1)} \cup
    {AxisEnv(n, <<"i">>, <<n>>) : n \in 1..(NumDevices + 1)}

InitLower ==
    /\ lower_result = NoLowering
    /\ compile_result = NoCompile

NextLower ==
    \/ \E n \in TableNames, prim \in Primitives : register_translation(n, prim)
    \/ \E jaxpr \in Jaxprs, env \in LowerAxisEnvs : jaxpr_computation(jaxpr, env)
    \/ jaxpr_computation_returns

NextCompile ==
    \/ \E jaxpr \in Jaxprs, da \in DeviceAssignments, env \in CompileAxisEnvs :
          compile_jaxpr(jaxpr, da, env)
    \/ compile_jaxpr_returns

(***************************************************************************)
(* Executor                                                                *)
(*                                                                         *)
(* An execution is given by the output buffers the backend returns: for    *)
(* each, its element type and whether it holds a NaN.  The arguments are   *)
(* host values or live device values, so that placing them succeeds.       *)
(***************************************************************************)
OutBufs == {[dtype |-> "float32", nan |-> FALSE],
            [dtype |-> "float32", nan |-> TRUE],
            [dtype |-> "int32", nan |-> FALSE]}
OutBufSeqs == SeqsUpTo(OutBufs, MaxOutputs)

\* FloatingPointError("invalid value (nan) encountered in {}".format(name));
\* the outcome of an execution holds the name the message is formatted with
FloatingPointError == "FloatingPointError: invalid value (nan) encountered in {}"
\* check_nans(xla_call_p, out_buf) where only out_bufs is bound
OutBufNameError == "NameError: name 'out_buf' is not defined"
\* any other exception of the uncompiled function
OtherError == "Exception"

\* _check_nans(name, xla_shape, buf): TRUE when it raises
_check_nans_raises(buf) == buf.dtype = "float32" /\ buf.nan

\* check_nans(prim, buf) over the elements of a tuple buffer (multiple
\* results) or over the one buffer: TRUE when it raises
check_nans_raises(bufs) == \E q \in 1..Len(bufs) : _check_nans_raises(bufs[q])

\* the handlers applied to the output buffers: one device value per buffer
handled(bufs) == [q \in 1..Len(bufs) |-> [device_buffer |-> bufs[q]]]

NoOutputs == <<>>
ExecOutcome(status, named, outputs) ==
    [status |-> status, named |-> named, outputs |-> outputs]

\* _execute_compiled(compiled, handlers, *args) and
\* _execute_replicated(compiled, handlers, *args) after the backend has
\* returned out_bufs: both evaluate check_nans(xla_call_p, out_buf)
whole_program_outcome(out_bufs) ==
    IF jax_debug_nans
    THEN ExecOutcome(OutBufNameError, "none", NoOutputs)
    ELSE ExecOutcome(Ok, "none", handled(out_bufs))

\* _execute_compiled_primitive(prim, compiled, result_handler, *args)
primitive_outcome(prim, out_buf) ==
    IF jax_debug_nans /\ check_nans_raises(<<out_buf>>)
    THEN ExecOutcome(FloatingPointError, prim, NoOutputs)
    ELSE ExecOutcome(Ok, "none", handled(<<out_buf>>))

ExecCall(op, out_bufs, compiled, caught, fallback_runs, final) ==
    [op |-> op, out_bufs |-> out_bufs, compiled |-> compiled, caught |-> caught,
     fallback_runs |-> fallback_runs, status |-> final.status,
     named |-> final.named, outputs |-> final.outputs]

NoExec == ExecCall("none", <<>>, ExecOutcome("none", "none", NoOutputs), 0, 0,
                   ExecOutcome("none", "none", NoOutputs))

\* the arguments of an execution: host arrays
ArgValues == {"x", "y"}
ExecArgs == SeqsUpTo(ArgValues, MaxArgs)

\* compiled.DeviceOrdinals() of an artifact compiled for n replicas
DeviceOrdinals(n) == [r \in 1..n |-> r - 1]

\* one backend call: device_put(x, i), or an execute call with its input_bufs
BackendCall(op, value, device, inputs) ==
    [op |-> op, value |-> value, device |-> device, inputs |-> inputs]

\* [device_put(x, i) for x in args]: the calls, and the buffers they return
placements_on(args, i) ==
    [k \in 1..Len(args) |-> BackendCall("device_put", args[k], i, <<>>)]
placed_on(args, i) == [k \in 1..Len(args) |-> [value |-> args[k], device |-> i]]

\* [[device_put(x, i) for x in args] for i in compiled.DeviceOrdinals()]
RECURSIVE placements(_, _)
placements(args, ordinals) ==
    IF ordinals = <<>> THEN <<>>
    ELSE placements_on(args, Head(ordinals)) \o placements(args, Tail(ordinals))
input_bufs_of(args, ordinals) ==
    [r \in 1..Len(ordinals) |-> placed_on(args, ordinals[r])]

\* the backend calls of _execute_compiled: the placements on the one device,
\* then compiled.Execute(input_bufs)
single_device_calls(args) ==
    placements_on(args, DeviceOrdinals(1)[1])
        \o <<BackendCall("Execute", "none", DeviceOrdinals(1)[1],
                         <<placed_on(args, DeviceOrdinals(1)[1])>>)>>

\* the backend calls of _execute_replicated: the placements device by device,
\* then compiled.ExecutePerReplica(input_bufs)
replicated_calls(args, n) ==
    placements(args, DeviceOrdinals(n))
        \o <<BackendCall("ExecutePerReplica", "none", 0,
                         input_bufs_of(args, DeviceOrdinals(n)))>>

ExecTrace(args, n, replica_outputs, events) ==
    [args |-> args, nreps |-> n, replica_outputs |-> replica_outputs,
     events |-> events]
NoTrace == ExecTrace(<<>>, 0, <<>>, <<>>)

\* the outputs of the replicas of one ExecutePerReplica call
ReplicaOutputs(n, out_bufs, other) ==
    [r \in 1..n |-> IF r = 1 THEN out_bufs ELSE other]

\* FLAGS.jax_debug_nans = b
set_jax_debug_nans(b) ==
    /\ exec_result.op = "none"
    /\ jax_debug_nans # b
    /\ jax_debug_nans' = b
    /\ UNCHANGED <<exec_result, exec_trace>>
    /\ UNCHANGED not_exec_vars

_execute_compiled(args, out_bufs) ==
    /\ exec_result.op = "none"
    /\ LET r == whole_program_outcome(out_bufs) IN
       exec_result' = ExecCall("_execute_compiled", out_bufs, r, 0, 0, r)
    /\ exec_trace' = ExecTrace(args, 1, <<out_bufs>>, single_device_calls(args))
    /\ UNCHANGED jax_debug_nans
    /\ UNCHANGED not_exec_vars

\* out_bufs = compiled.ExecutePerReplica(input_bufs)[0].destructure(); the
\* other replicas return `other`
_execute_replicated(args, n, out_bufs, other) ==
    /\ exec_result.op = "none"
    /\ LET r == whole_program_outcome(out_bufs) IN
       exec_result' = ExecCall("_execute_replicated", out_bufs, r, 0, 0, r)
    /\ exec_trace' = ExecTrace(args, n, ReplicaOutputs(n, out_bufs, other),
                               replicated_calls(args, n))
    /\ UNCHANGED jax_debug_nans
    /\ UNCHANGED not_exec_vars

\* _xla_call_impl(fun, *args, **params) with the compiled function at hand:
\* the try around compiled_fun(*args), and in the except FloatingPointError
\* clause fun.call_wrapped(*args), which ends as `fallback` says
_xla_call_impl(args, out_bufs, fallback) ==
    /\ exec_result.op = "none"
    /\ LET r == whole_program_outcome(out_bufs) IN
       exec_result' =
          IF r.status = FloatingPointError
          THEN ExecCall("_xla_call_impl", out_bufs, r, 1, 1, fallback)
          ELSE ExecCall("_xla_call_impl", out_bufs, r, 0, 0, r)
    /\ exec_trace' = ExecTrace(args, 1, <<out_bufs>>, single_device_calls(args))
    /\ UNCHANGED jax_debug_nans
    /\ UNCHANGED not_exec_vars

\* apply_primitive(prim, *args, **params) with the compiled function at hand
apply_primitive(prim, args, out_buf) ==
    /\ exec_result.op = "none"
    /\ LET r == primitive_outcome(prim, out_buf) IN
       exec_result' = ExecCall("apply_primitive", <<out_buf>>, r, 0, 0, r)
    /\ exec_trace' = ExecTrace(args, 1, <<<<out_buf>>>>, single_device_calls(args))
    /\ UNCHANGED jax_debug_nans
    /\ UNCHANGED not_exec_vars

\* the caller takes the outputs, or the exception
execution_returns ==
    /\ exec_result.op # "none"
    /\ exec_result' = NoExec
    /\ exec_trace' = NoTrace
    /\ UNCHANGED jax_debug_nans
    /\ UNCHANGED not_exec_vars

\* how the uncompiled function can end: it returns, it raises
\* FloatingPointError from a primitive of its own, or it raises something else
FallbackOutcomes ==
    {ExecOutcome(Ok, "none", handled(<<[dtype |-> "float32", nan |-> TRUE]>>)),
     ExecOutcome(FloatingPointError, "add_jaxvals", NoOutputs),
     ExecOutcome(OtherError, "none", NoOutputs)}

\* flags.DEFINE_bool('jax_debug_nans', ... "False")
InitExec ==
    /\ jax_debug_nans = FALSE
    /\ exec_result = NoExec
    /\ exec_trace = NoTrace

\* the other replicas return as many outputs as replica 0
OtherOutputs(out_bufs) == {other \in OutBufSeqs : Len(other) = Len(out_bufs)}

NextExec ==
    \/ \E b \in BOOLEAN : set_jax_debug_nans(b)
    \/ \E args \in ExecArgs, out_bufs \in OutBufSeqs : _execute_compiled(args, out_bufs)
    \/ \E args \in ExecArgs, n \in 2..NumDevices, out_bufs \in OutBufSeqs :
          \E other \in OtherOutputs(out_bufs) :
              _execute_replicated(args, n, out_bufs, other)
    \/ \E args \in ExecArgs, out_bufs \in OutBufSeqs, f \in FallbackOutcomes :
          _xla_call_impl(args, out_bufs, f)
    \/ \E prim \in Primitives \ {"xla_call"}, args \in ExecArgs, b \in OutBufs :
          apply_primitive(prim, args, b)
    \/ execution_returns

(***************************************************************************)
(* Helper functions of lowering and compilation.  A call is recorded with  *)
(* its arguments and its result.                                           *)
(***************************************************************************)
NoCall == [fn |-> "none"]

InitCalls == call_result = NoCall

\* the caller takes the result, or the exception
call_returns ==
    /\ call_result.fn # "none"
    /\ call_result' = NoCall
    /\ UNCHANGED not_call_vars

(***************************************************************************)
(* Primitives with multiple results                                        *)
(***************************************************************************)
SeqMin(a, b) == IF a <= b THEN a ELSE b

\* c.GetTupleElement(ans, i)
GetTupleElement(i) == [tuple_element |-> i]

\* a destructuring that hands the elements out last to first
xla_destructure_reversed(num_elements) ==
    [q \in 1..num_elements |-> GetTupleElement(num_elements - q)]

\* xla_destructure(c, ans), with num_elements = len(c.GetShape(ans).tuple_shapes())
xla_destructure(num_elements) ==
    [q \in 1..num_elements |-> GetTupleElement(q - 1)]

\* _map(write, eqn.outvars, out_nodes): env[v] = node pairwise
write_outvars(outvars, out_nodes) ==
    [q \in 1..SeqMin(Len(outvars), Len(out_nodes)) |->
        [var |-> outvars[q], node |-> out_nodes[q]]]

\* the declared output variables of an equation with n outputs
OutVars(n) == [q \in 1..n |-> q - 1]

\* xs.destructure() of the tuple buffer an execution returns
destructure(bufs) ==
    [q \in 1..Len(bufs) |-> [tuple_element |-> q - 1, contents |-> bufs[q]]]

\* handlers = tuple(map(aval_to_result_handler, aval_out));
\* handle_result = lambda xs: tuple(h(x) for h, x in zip(handlers, xs.destructure()))
\* with array_result_handler(aval) = partial(DeviceArray, aval)
handle_result(aval_out, xs) ==
    [q \in 1..SeqMin(Len(aval_out), Len(xs)) |->
        [aval |-> aval_out[q], device_buffer |-> xs[q]]]

\* the abstract outputs a primitive with multiple results declares
AvalOuts == SeqsUpTo(Avals, MaxOutputs)
\* the output buffers of an execution whose outputs have the avals aval_out
OutBufsFor(aval_out) ==
    {bufs \in OutBufSeqs :
        /\ Len(bufs) = Len(aval_out)
        /\ \A q \in 1..Len(bufs) : bufs[q].dtype = aval_out[q].dtype}

\* A primitive with multiple_results = True and the abstract outputs aval_out:
\* the lowering of its equation (xla_destructure and the writes of its outvars),
\* and its execution through apply_primitive, the backend returning bufs
multiple_results_call(aval_out, bufs) ==
    /\ call_result.fn = "none"
    /\ call_result' =
          [fn |-> "multiple_results", aval_out |-> aval_out, bufs |-> bufs,
           bindings |-> write_outvars(OutVars(Len(aval_out)),
                                      xla_destructure(Len(aval_out))),
           status |-> IF jax_debug_nans /\ check_nans_raises(bufs)
                      THEN FloatingPointError ELSE Ok,
           outputs |-> IF jax_debug_nans /\ check_nans_raises(bufs)
                       THEN NoOutputs
                       ELSE handle_result(aval_out, destructure(bufs))]
    /\ UNCHANGED not_call_vars

NextMultipleResults ==
    \/ \E b \in BOOLEAN : set_jax_debug_nans(b)
    \/ \E aval_out \in AvalOuts : \E bufs \in OutBufsFor(aval_out) :
          multiple_results_call(aval_out, bufs)
    \/ call_returns

(***************************************************************************)
(* jaxpr_replicas                                                          *)
(*                                                                         *)
(* Here an equation is given by its primitive, params.get('axis_size')     *)
(* (None when absent), bound_subjaxprs (no or one nested jaxpr) and the *)
(* jaxprs among its params.values().                                       *)
(***************************************************************************)
ReplicaEqn(prim, axis_size, bound_subjaxprs, param_jaxprs) ==
    [primitive |-> prim, axis_size |-> axis_size,
     bound_subjaxprs |-> bound_subjaxprs, param_jaxprs |-> param_jaxprs]

\* explicit replica multipliers of a mapped call: absent, or 2
AxisSizeParams == {None, Some(2)}

\* the equations over the nested programs in S: a plain primitive, a call
\* equation (bound_subjaxprs), an equation with a jaxpr parameter
EqnsOver(S) ==
    {ReplicaEqn("add_jaxvals", None, <<>>, <<>>)}
        \cup {ReplicaEqn("xla_call", sz, <<j>>, <<>>) : sz \in AxisSizeParams, j \in S}
        \cup {ReplicaEqn("custom", None, <<>>, <<j>>) : j \in S}
NestedOver(S) == {<<>>} \cup {<<e>> : e \in EqnsOver(S)}
\* nested programs, themselves holding at most one nested program
InnermostJaxprs == {<<>>, <<ReplicaEqn("add_jaxvals", None, <<>>, <<>>)>>}
NestedJaxprs == NestedOver(InnermostJaxprs)
ReplicaJaxprs == SeqsUpTo(EqnsOver(NestedJaxprs), MaxReplicaEqns)

\* eqn.params.get('axis_size', 1)
axis_size_or_1(eqn) == IF eqn.axis_size.given THEN eqn.axis_size.value ELSE 1

RECURSIVE jaxpr_replicas(_), eqn_replicas(_)
\* eqn_replicas without the axis_size multiplier
eqn_replicas_unscaled(eqn) ==
    IF eqn.bound_subjaxprs # <<>>
    THEN jaxpr_replicas(eqn.bound_subjaxprs[1])
    ELSE IF eqn.primitive \in tables["initial_style_translations"]
    THEN SetMax({1} \cup {jaxpr_replicas(eqn.param_jaxprs[q]) :
                             q \in 1..Len(eqn.param_jaxprs)})
    ELSE 1

\* eqn_replicas(eqn)
eqn_replicas(eqn) ==
    IF eqn.bound_subjaxprs # <<>>
    THEN axis_size_or_1(eqn) * jaxpr_replicas(eqn.bound_subjaxprs[1])
    ELSE IF eqn.primitive \in tables["initial_style_translations"]
    THEN SetMax({1} \cup {jaxpr_replicas(eqn.param_jaxprs[q]) :
                             q \in 1..Len(eqn.param_jaxprs)})
    ELSE 1

\* jaxpr_replicas(jaxpr): max(it.chain([1], (eqn_replicas(eqn) for eqn in jaxpr.eqns)))
jaxpr_replicas(jaxpr) ==
    SetMax({1} \cup {eqn_replicas(jaxpr[q]) : q \in 1..Len(jaxpr)})

jaxpr_replicas_call(jaxpr) ==
    /\ call_result.fn = "none"
    /\ call_result' = [fn |-> "jaxpr_replicas", jaxpr |-> jaxpr,
                       result |-> jaxpr_replicas(jaxpr)]
    /\ UNCHANGED not_call_vars

NextReplicas ==
    \/ \E prim \in Primitives : register_translation("initial_style_translations", prim)
    \/ \E jaxpr \in ReplicaJaxprs : jaxpr_replicas_call(jaxpr)
    \/ call_returns

(***************************************************************************)
(* The prefetch pre-pass of _jaxpr_computation                             *)
(*                                                                         *)
(* A literal or constant is a host array, a live DeviceArray or a deleted  *)
(* DeviceArray.  The literals of a jaxpr are given equation by equation:   *)
(* the literal among the equation's invars, or NoLiteral.                  *)
(***************************************************************************)
NoLiteral == "no literal"
DeletedDeviceArray == "deleted DeviceArray"
ConstKinds == {"ndarray", "DeviceArray", DeletedDeviceArray}
LiteralsOf(jaxpr) == [1..Len(jaxpr) -> ConstKinds \cup {NoLiteral}]
ConstVals == SeqsUpTo(ConstKinds, MaxConsts)

\* jaxpr_literals(jaxpr): the literals of the equations, in order
RECURSIVE jaxpr_literals(_)
jaxpr_literals(literals) ==
    IF literals = <<>> THEN <<>>
    ELSE (IF Head(literals) = NoLiteral THEN <<>> ELSE <<Head(literals)>>)
             \o jaxpr_literals(Tail(literals))

\* prefetch(x): x.copy_to_host_async() for a DeviceArray, whose
\* _check_if_deleted raises on a deleted one; TRUE when it raises
prefetch_raises(x) == x = DeletedDeviceArray

\* _map(prefetch, it.chain(jaxpr_literals(jaxpr), const_vals)): TRUE when it raises
prefetch_pass_raises(literals, const_vals) ==
    \E q \in 1..Len(jaxpr_literals(literals) \o const_vals) :
        prefetch_raises((jaxpr_literals(literals) \o const_vals)[q])

\* build_jaxpr(jaxpr, axis_env, const_vals, *abstract_args): the prefetch
\* pre-pass, then the lowering of the equations
build_jaxpr(jaxpr, literals, const_vals) ==
    /\ call_result.fn = "none"
    /\ call_result' =
          IF prefetch_pass_raises(literals, const_vals)
          THEN [fn |-> "build_jaxpr", jaxpr |-> jaxpr, literals |-> literals,
                const_vals |-> const_vals, status |-> UseAfterDelete,
                raised_in |-> "prefetch", lowering |-> NoLowering]
          ELSE LET built == lower_eqns(jaxpr, AxisEnv(1, <<>>, <<>>)) IN
               [fn |-> "build_jaxpr", jaxpr |-> jaxpr, literals |-> literals,
                const_vals |-> const_vals, status |-> built.status,
                raised_in |-> IF built.status = Ok THEN "none" ELSE "lowering",
                lowering |-> built]
    /\ UNCHANGED not_call_vars

NextPrefetch ==
    \/ \E jaxpr \in Jaxprs : \E literals \in LiteralsOf(jaxpr), const_vals \in ConstVals :
          build_jaxpr(jaxpr, literals, const_vals)
    \/ call_returns

(***************************************************************************)
(* get_compile_options                                                     *)
(***************************************************************************)
\* num_replicas: None or a replica count
ReplicaCountArgs == {None} \cup {Some(n) : n \in 1..MaxReplicas}
\* device_assignment: None or a tuple of device ordinals
DeviceAssignmentArgs ==
    {None} \cup {Some(d) : d \in SeqsUpTo(Devices, MaxAssignment) \ {<<>>}}

get_compile_options_call(num_replicas, device_assignment) ==
    /\ call_result.fn = "none"
    /\ LET r == get_compile_options(num_replicas, device_assignment) IN
       call_result' = [fn |-> "get_compile_options", num_replicas |-> num_replicas,
                       device_assignment |-> device_assignment,
                       status |-> r.status, options |-> r.options]
    /\ UNCHANGED not_call_vars

NextCompileOptions ==
    \/ \E num_replicas \in ReplicaCountArgs, device_assignment \in DeviceAssignmentArgs :
          get_compile_options_call(num_replicas, device_assignment)
    \/ call_returns

(***************************************************************************)
(* Parameters of a lowered program and operands of a call                  *)
(*                                                                         *)
(* A program has constvars, freevars and invars.  The builder numbers its  *)
(* parameters in the order they are created.                               *)
(***************************************************************************)
ProgramVars(kind, n) == [q \in 1..n |-> [kind |-> kind, index |-> q]]
OuterNodes(kind, n) == [q \in 1..n |-> [outer |-> kind, index |-> q]]
VarCounts == 0..MaxVars

\* c.ParameterWithShape(shape): the next parameter of the computation
ParameterNode(number) == [node |-> "parameter", number |-> number]
\* c.Constant(value)
ConstantNode(value) == [node |-> "constant", value |-> value]

\* the parameters created with the declared inputs first
parameter_order_inputs_first(constvars, freevars, invars, const_vals) ==
    IF const_vals # <<>> THEN invars \o freevars
    ELSE invars \o constvars \o freevars

\* the variables that get a parameter, in the order the parameters are created:
\* with const_vals the freevars, then the invars; without, the constvars and
\* freevars chained, then the invars
parameter_order(constvars, freevars, invars, const_vals) ==
    IF const_vals # <<>> THEN freevars \o invars
    ELSE constvars \o freevars \o invars

\* the writes of _jaxpr_computation before the equation loop: variable -> node
initial_env(constvars, freevars, invars, const_vals) ==
    LET order == parameter_order(constvars, freevars, invars, const_vals)
        constants == IF const_vals # <<>>
                     THEN [q \in 1..SeqMin(Len(constvars), Len(const_vals)) |->
                              [var |-> constvars[q], node |-> ConstantNode(const_vals[q])]]
                     ELSE <<>>
    IN constants \o [k \in 1..Len(order) |-> [var |-> order[k],
                                              node |-> ParameterNode(k - 1)]]

\* c.Call(subc, env_nodes + in_nodes) with
\* env_nodes = list(map(read, const_bindings + freevar_bindings))
call_operands(const_bindings, freevar_bindings, in_nodes) ==
    const_bindings \o freevar_bindings \o in_nodes

\* the call-style rule applied to an equation whose nested program has nc
\* constvars, nf freevars and ni invars: jaxpr_computation(jaxpr, axis_env, (),
\* shapes of env_nodes, shapes of in_nodes), then c.Call
xla_call_translation_rule(nc, nf, ni) ==
    /\ call_result.fn = "none"
    /\ call_result' =
          [fn |-> "_xla_call_translation_rule", nc |-> nc, nf |-> nf, ni |-> ni,
           env |-> initial_env(ProgramVars("constvar", nc), ProgramVars("freevar", nf),
                               ProgramVars("invar", ni), <<>>),
           operands |-> call_operands(OuterNodes("const_binding", nc),
                                      OuterNodes("freevar_binding", nf),
                                      OuterNodes("invar", ni))]
    /\ UNCHANGED not_call_vars

\* jaxpr_computation(jaxpr, axis_env, const_vals, freevar_shapes, *arg_shapes)
\* with the constant values supplied directly
jaxpr_computation_with_consts(nc, nf, ni) ==
    /\ call_result.fn = "none"
    /\ call_result' =
          [fn |-> "jaxpr_computation", nc |-> nc, nf |-> nf, ni |-> ni,
           env |-> initial_env(ProgramVars("constvar", nc), ProgramVars("freevar", nf),
                               ProgramVars("invar", ni), OuterNodes("const_val", nc)),
           operands |-> <<>>]
    /\ UNCHANGED not_call_vars

NextParameters ==
    \/ \E nc \in VarCounts, nf \in VarCounts, ni \in VarCounts :
          xla_call_translation_rule(nc, nf, ni)
    \/ \E nc \in VarCounts, nf \in VarCounts, ni \in VarCounts :
          jaxpr_computation_with_consts(nc, nf, ni)
    \/ call_returns

Init ==
    /\ InitDevice /\ InitBackend /\ InitAxis /\ InitTables /\ InitCache
    /\ InitLower /\ InitExec /\ InitCalls

SpecDevice == Init /\ [][NextDevice]_vars

\* the backend handle, under any value of the backend-selection flag
InitAnyBackendFlag ==
    /\ InitDevice /\ InitAxis /\ InitTables /\ InitCache /\ InitLower /\ InitExec
    /\ InitCalls
    /\ InitBackendState /\ jax_xla_backend \in BackendFlagValues

SpecBackend == InitAnyBackendFlag /\ [][NextBackend]_vars

SpecAxis == Init /\ [][NextAxis]_vars

SpecCache == Init /\ [][NextCache]_vars

SpecLower == Init /\ [][NextLower]_vars

SpecCompile == Init /\ [][NextCompile]_vars

SpecExec == Init /\ [][NextExec]_vars

SpecMultipleResults == Init /\ [][NextMultipleResults]_vars

SpecReplicas == Init /\ [][NextReplicas]_vars

SpecPrefetch == Init /\ [][NextPrefetch]_vars

SpecCompileOptions == Init /\ [][NextCompileOptions]_vars

SpecParameters == Init /\ [][NextParameters]_vars

(***************************************************************************)
(* Device values: claims                                                   *)
(***************************************************************************)
AccessOps == {"_value", "block_until_ready", "copy_to_host_async",
              "shape", "dtype", "size", "ndim", "device_put"}

\* C1: once delete() has been called on a Device Value, every later property
\* or content access (host value read, block_until_ready, copy_to_host_async,
\* shape, dtype, size, ndim, use as an argument of device_put) fails with
\* UseAfterDelete, and with no other outcome.
C1_AccessAfterDeleteFails ==
    (dev_result.op \in AccessOps /\ dev_result.deleted_before)
        => dev_result.status = UseAfterDelete

\* C2: delete() on an already deleted Device Value succeeds as a no-op or
\* fails with UseAfterDelete, never with another error; the backend buffer is
\* never released twice and the instance stays Deleted (no buffer, no cached
\* host value).
C2_SecondDeleteSafe ==
    /\ (dev_result.op = "delete" /\ dev_result.deleted_before)
          => /\ dev_result.status \in {Ok, UseAfterDelete}
             /\ wrappers[dev_result.self].device_buffer = NoBuffer
             /\ wrappers[dev_result.self].npy_value = NoValue
    /\ \A b \in BufIds : buffers[b].released <= 1

\* C9: for a live Device Value the buffer-to-host transfer (to_py) happens at
\* most once between creation and deletion, however often the host value is
\* read; a read that finds the cached host value returns it without a
\* transfer.
C9_ToPyAtMostOnce ==
    \A v \in Values :
        /\ to_py_calls[v] <= 1
        /\ (value_reads[v] >= 1 /\ wrappers[v].device_buffer # NoBuffer)
              => /\ to_py_calls[v] = 1
                 /\ wrappers[v].npy_value = to_py(wrappers[v].device_buffer)

C9_Witness ==
    \E v \in Values :
        /\ value_reads[v] >= 2
        /\ to_py_calls[v] = 1
        /\ wrappers[v].device_buffer # NoBuffer
        /\ dev_result.op = "_value" /\ dev_result.self = v /\ dev_result.status = Ok

PartitionsReplicas(groups, nreps) ==
    /\ \A r \in 0..(nreps - 1) :
          Cardinality({<<g, k>> \in (1..Len(groups)) \X (1..MaxReplicas) :
                          k <= Len(groups[g]) /\ groups[g][k] = r}) = 1
    /\ \A g \in 1..Len(groups) : \A k \in 1..Len(groups[g]) :
          groups[g][k] \in 0..(nreps - 1)

\* the case of C5: sizes [2,3], 6 replicas, grouping by the first axis name
\* (the names of the two axes differ, so that the name reads the first axis)
C5_Case ==
    /\ axis_result.op = "axis_groups"
    /\ axis_env.nreps = 6
    /\ axis_env.sizes = <<2, 3>>
    /\ axis_env.names[1] # axis_env.names[2]
    /\ axis_result.names = <<axis_env.names[1]>>

\* C5 as stated: for an axis environment with axis sizes [2,3] and 6 total
\* replicas, axis_groups for the first axis name returns 2 groups of 3 replica
\* indices each, and the groups partition {0..5} exactly.
C5_TwoGroupsOfThree ==
    C5_Case =>
        /\ axis_result.status = Ok
        /\ Len(axis_result.groups) = 2
        /\ \A g \in 1..Len(axis_result.groups) : Len(axis_result.groups[g]) = 3
        /\ PartitionsReplicas(axis_result.groups, 6)

\* C5 amended: for an axis environment with two differently named axes of
\* sizes [2,3] and 6 total replicas, axis_groups for the first axis name
\* returns 3 groups of 2 replica indices each, (0,3), (1,4), (2,5): one group
\* per position along the other axis; the groups partition {0..5} exactly.
C5_ThreeGroupsOfTwo ==
    C5_Case =>
        /\ axis_result.status = Ok
        /\ axis_result.groups = <<(<<0, 3>>), (<<1, 4>>), (<<2, 5>>)>>
        /\ Len(axis_result.groups) = 3
        /\ \A g \in 1..Len(axis_result.groups) : Len(axis_result.groups[g]) = 2
        /\ PartitionsReplicas(axis_result.groups, 6)

C5_Witness == C5_Case /\ axis_result.status = Ok /\ Len(axis_result.groups) = 3

(***************************************************************************)
(* Single-primitive compilation: claims                                    *)
(***************************************************************************)
\* C4: for a primitive with a translation rule and any abstract argument
\* signature and static parameters, every call of xla_primitive_callable after
\* the first with the same key returns the identical cached compiled callable:
\* backend graph construction and backend Compile each run at most once per
\* distinct key.
C4_CompiledOnce ==
    /\ \A k \in PrimKeys :
          /\ compile_runs[k] <= 1
          /\ build_runs[ComputationKey(k)] <= 1
          /\ callable_cache[k] # NoEntry
                => /\ callable_cache[k] = <<"compiled", k, 1>>
                   /\ computation_cache[ComputationKey(k)] # NoEntry
    /\ prim_result.status = Ok
          => /\ prim_result.callable = <<"compiled", prim_result.key, 1>>
             /\ prim_result.callable = callable_cache[prim_result.key]

C4_Witness ==
    /\ prim_result.status = Ok
    /\ prim_result.cached
    /\ prim_calls >= 2
    /\ compile_runs[prim_result.key] = 1
    /\ build_runs[ComputationKey(prim_result.key)] = 1

(***************************************************************************)
(* Lowering and whole-program compilation: claims                          *)
(***************************************************************************)
\* C6: compile_jaxpr called with an axis environment whose replica count
\* exceeds the backend device count fails with the ReplicaOversubscription
\* error (its message naming the required replicas and the available devices),
\* before any lowering or backend Compile call is made.
C6_OversubscriptionError ==
    (compile_result.status # "none" /\ compile_result.axis_env.nreps > device_count)
        => /\ compile_result.status = ReplicaOversubscription
           /\ compile_result.lowering = NoLowering
           /\ compile_result.compile_calls = 0

\* the earliest table, in the fixed order, that holds the primitive
TablesHolding(prim) == {q \in 1..Len(TableOrder) : prim \in tables[TableOrder[q]]}
EarliestTable(prim) == TableOrder[SetMin(TablesHolding(prim))]

LoweredByEarliestTable(r) ==
    /\ \A q \in 1..Len(r.log) :
          /\ TablesHolding(r.log[q].primitive) # {}
          /\ r.log[q].table = EarliestTable(r.log[q].primitive)
    /\ (r.status # Ok /\ TablesHolding(r.at) = {})
          => (r.status = NoTranslationRule /\ r.named = r.at)
    /\ r.status = NoTranslationRule => TablesHolding(r.at) = {}

C7_NanCheckOutcome ==
    exec_result.op \in {"_execute_compiled", "_execute_replicated"}
        => IF jax_debug_nans /\ check_nans_raises(exec_result.out_bufs)
           THEN exec_result.status = FloatingPointError /\ exec_result.named = "xla_call"
           ELSE exec_result.status = Ok
                   /\ exec_result.outputs = handled(exec_result.out_bufs)

C11_Placements ==
    LET t == exec_trace
        np == t.nreps * Len(t.args)
    IN /\ Len(t.events) = np + 1
       /\ \A r \in 1..t.nreps, k \in 1..Len(t.args) :
             t.events[(r - 1) * Len(t.args) + k]
                 = BackendCall("device_put", t.args[k], r - 1, <<>>)
       /\ t.events[np + 1].op = "ExecutePerReplica"
       /\ Len(t.events[np + 1].inputs) = t.nreps
       /\ \A r \in 1..t.nreps :
             t.events[np + 1].inputs[r]
                 = [k \in 1..Len(t.args) |-> [value |-> t.args[k], device |-> r - 1]]

C11_ReplicatedExecution ==
    exec_result.op = "_execute_replicated"
        => /\ C11_Placements
           /\ IF jax_debug_nans /\ check_nans_raises(exec_trace.replica_outputs[1])
              THEN exec_result.status = FloatingPointError
              ELSE /\ exec_result.status = Ok
                   /\ exec_result.outputs = handled(exec_trace.replica_outputs[1])

(***************************************************************************)
(* Helper functions: claims                                                *)
(***************************************************************************)
\* C12: for an equation whose primitive declares multiple results with n
\* declared outputs, lowering binds the i-th output variable to tuple element i
\* of the rule's result for every i in 0..n-1, and an execution that returns
\* yields exactly n Device Values in declared output order, each with the
\* abstract value of its declared output.
C12_MultipleResults ==
    call_result.fn = "multiple_results"
        => LET n == Len(call_result.aval_out) IN
           /\ Len(call_result.bindings) = n
           /\ \A q \in 1..n :
                 call_result.bindings[q] = [var |-> q - 1, node |-> [tuple_element |-> q - 1]]
           /\ call_result.status = Ok
                 => /\ Len(call_result.outputs) = n
                    /\ \A q \in 1..n :
                          /\ call_result.outputs[q].aval = call_result.aval_out[q]
                          /\ call_result.outputs[q].device_buffer.tuple_element = q - 1
                          /\ call_result.outputs[q].device_buffer.contents
                                = call_result.bufs[q]

C12_Witness ==
    /\ call_result.fn = "multiple_results"
    /\ call_result.status = Ok
    /\ Len(call_result.outputs) = 2
    /\ call_result.outputs[1].aval # call_result.outputs[2].aval

\* the nested programs of an equation that count: the program of a call
\* equation, the jaxpr parameters of an initial-style equation
NestedPrograms(eqn) ==
    IF eqn.bound_subjaxprs # <<>> THEN {eqn.bound_subjaxprs[1]}
    ELSE IF eqn.primitive \in tables["initial_style_translations"]
    THEN {eqn.param_jaxprs[q] : q \in 1..Len(eqn.param_jaxprs)}
    ELSE {}

\* the replica requirement the claim states, bottom-up over the nesting depth
RECURSIVE RequiredReplicas(_)
RequiredReplicas(jaxpr) ==
    LET OfEqn(e) ==
            IF NestedPrograms(e) = {} THEN 1
            ELSE (IF e.axis_size.given THEN e.axis_size.value ELSE 1)
                     * SetMax({RequiredReplicas(j) : j \in NestedPrograms(e)})
    IN IF jaxpr = <<>> THEN 1
       ELSE SetMax({1} \cup {OfEqn(jaxpr[q]) : q \in 1..Len(jaxpr)})

\* C13: jaxpr_replicas returns, for any program, the maximum over its equations
\* of (replica count of the equation's nested program multiplied by the
\* equation's explicit axis_size multiplier, taken as 1 when absent), computed
\* recursively through call-style and initial-style nested programs, and
\* returns 1 for a program with no nested or mapped structure (including an
\* empty program).
ReplicaRequirementMet(r) ==
    /\ r.result = RequiredReplicas(r.jaxpr)
    /\ (\A q \in 1..Len(r.jaxpr) : NestedPrograms(r.jaxpr[q]) = {}) => r.result = 1

C14_PrefetchIgnored ==
    call_result.fn = "build_jaxpr"
        => /\ call_result.raised_in # "prefetch"
           /\ (\A q \in 1..Len(call_result.literals) :
                  call_result.literals[q] # DeletedDeviceArray)
                 => call_result.status
                       = lower_eqns(call_result.jaxpr, AxisEnv(1, <<>>, <<>>)).status

\* C15: get_compile_options fails with InconsistentReplicas whenever both a
\* replica count and a device assignment are given and the assignment's length
\* differs from the replica count, and in that case produces no compile
\* options; when they agree, or when only one of them is given, it does not
\* fail.
C15_InconsistentReplicas ==
    call_result.fn = "get_compile_options"
        => LET nr == call_result.num_replicas
               da == call_result.device_assignment
           IN IF nr.given /\ da.given /\ Len(da.value) # nr.value
              THEN call_result.status = InconsistentReplicas
                      /\ call_result.options = None
              ELSE call_result.status = Ok

C15_Witness ==
    /\ call_result.fn = "get_compile_options"
    /\ call_result.status = InconsistentReplicas
    /\ call_result.num_replicas.given
    /\ call_result.device_assignment.given

\* C16: in single-primitive compilation, abstract evaluation of the primitive
\* and construction of the result handlers happen before any backend graph
\* construction or Compile call, so when abstract evaluation fails no backend
\* computation is built or compiled and nothing is cached for that key.
C16_AbstractEvalFirst ==
    /\ [](\A k \in PrimKeys :
            ~abstract_eval_ok(k)
                => compile_runs[k] = 0 /\ callable_cache[k] = NoEntry)
    /\ [][(prim_calls' # prim_calls /\ prim_result'.status = AbstractEvalError)
             => UNCHANGED <<build_runs, compile_runs, callable_cache,
                            computation_cache>>]_vars

\* abstract evaluation has failed for a primitive that has a translation rule
C16_Witness ==
    /\ prim_result.status = AbstractEvalError
    /\ primitive_rule_table(prim_result.key.prim) # "none"
    /\ build_runs[ComputationKey(prim_result.key)] = 0
    /\ callable_cache[prim_result.key] = NoEntry

\* the outer node that is meant for a variable of the nested program
BindingFor(var) ==
    [outer |-> CASE var.kind = "constvar" -> "const_binding"
                 [] var.kind = "freevar" -> "freevar_binding"
                 [] OTHER -> "invar",
     index |-> var.index]

\* the position of a variable among the parameters created for the kinds in
\* the order constvars, freevars, invars
ParameterPosition(r, var) ==
    CASE var.kind = "constvar" -> var.index - 1
      [] var.kind = "freevar" ->
            (IF r.fn = "jaxpr_computation" /\ r.nc > 0 THEN 0 ELSE r.nc) + var.index - 1
      [] OTHER ->
            (IF r.fn = "jaxpr_computation" /\ r.nc > 0 THEN 0 ELSE r.nc)
                + r.nf + var.index - 1

\* C17: when a nested program is lowered through the call-style rule (no
\* constant values supplied), its input parameters are created in the order
\* constant-variables, free variables, declared inputs, and the call site passes
\* operands in the matching order (constant bindings, free-variable bindings,
\* then equation inputs), so the k-th operand of the call always feeds the
\* variable bound to the k-th parameter; when constant values are supplied
\* directly, constant-variables are bound to constant nodes and consume no
\* parameter.
C17_ParameterOrder ==
    /\ call_result.fn = "_xla_call_translation_rule"
          => LET r == call_result IN
             /\ Len(r.env) = r.nc + r.nf + r.ni
             /\ Len(r.operands) = Len(r.env)
             /\ \A q \in 1..Len(r.env) :
                   /\ r.env[q].node = ParameterNode(ParameterPosition(r, r.env[q].var))
                   /\ r.operands[r.env[q].node.number + 1] = BindingFor(r.env[q].var)
    /\ (call_result.fn = "jaxpr_computation" /\ call_result.nc > 0)
          => LET r == call_result IN
             /\ Len(r.env) = r.nc + r.nf + r.ni
             /\ \A q \in 1..Len(r.env) :
                   IF r.env[q].var.kind = "constvar"
                   THEN r.env[q].node
                           = ConstantNode([outer |-> "const_val",
                                           index |-> r.env[q].var.index])
                   ELSE r.env[q].node = ParameterNode(ParameterPosition(r, r.env[q].var))

C17_Witness ==
    /\ call_result.fn = "_xla_call_translation_rule"
    /\ call_result.nc = 2 /\ call_result.nf = 1 /\ call_result.ni = 2
    /\ call_result.operands[4] = [outer |-> "invar", index |-> 1]
    /\ \E q \in 1..Len(call_result.env) :
          /\ call_result.env[q].var = [kind |-> "invar", index |-> 1]
          /\ call_result.env[q].node = ParameterNode(3)

(***************************************************************************)
(* Axis environments: further claims                                       *)
(***************************************************************************)
\* the case of C18: axis_groups has been called on an environment whose sizes'
\* product divides the replica count, with names that are all bound in it
C18_Case ==
    /\ axis_result.op = "axis_groups"
    /\ axis_env.nreps % prod(axis_env.sizes) = 0
    /\ \A q \in 1..Len(axis_result.names) :
          axis_positions(axis_env, axis_result.names[q]) # {}

GroupsPartitionEvenly ==
    /\ axis_result.status = Ok
    /\ PartitionsReplicas(axis_result.groups, axis_env.nreps)
    /\ \A g, h \in 1..Len(axis_result.groups) :
          Len(axis_result.groups[g]) = Len(axis_result.groups[h])

\* C18 as stated: for every axis environment whose axis sizes' product divides
\* the replica count, and every axis name (or list of names) bound in it,
\* axis_groups returns groups that partition {0..nreps-1} exactly: the groups
\* are pairwise disjoint, all of the same size, and their union is every
\* replica index.
C18_GroupsPartition == C18_Case => GroupsPartitionEvenly

\* C18 amended: for every axis environment whose axis sizes' product divides
\* the replica count, and every axis name or list of names bound in it that
\* names no axis twice, axis_groups returns groups that partition {0..nreps-1}
\* exactly: pairwise disjoint, all of the same size, their union every replica
\* index.  A list that names the same axis twice makes axis_groups raise.
C18_GroupsPartitionDistinct ==
    /\ (C18_Case /\ \A q, r \in 1..Len(axis_result.names) :
                       q # r => axis_result.names[q] # axis_result.names[r])
          => GroupsPartitionEvenly
    /\ (C18_Case /\ \E q, r \in 1..Len(axis_result.names) :
                       q # r /\ axis_result.names[q] = axis_result.names[r])
          => axis_result.status = RepeatedAxisError

\* a list of two names, on an environment with replicas beyond the two axes
C18_Witness ==
    /\ C18_Case
    /\ Len(axis_result.names) = 2
    /\ axis_result.names[1] # axis_result.names[2]
    /\ axis_result.status = Ok
    /\ axis_env.nreps > prod(axis_env.sizes)
    /\ Len(axis_result.groups) > 1
    /\ Len(axis_result.groups[1]) > 1

\* the position of the innermost (most recently pushed) binding of a name
InnermostBinding(env, name) ==
    CHOOSE p \in 0..(Len(env.names) - 1) :
        /\ env.names[p + 1] = name
        /\ \A later \in (p + 1)..(Len(env.names) - 1) : env.names[later + 1] # name

\* C19: when the same axis name has been pushed onto the axis environment more
\* than once by nested extend_axis_env calls, a collective naming that axis
\* resolves to the innermost (most recently pushed) binding; extend_axis_env
\* itself returns a new environment and leaves the environment it was given,
\* and the total replica count, unchanged.
C19_InnermostBinding ==
    /\ []((axis_result.op = "axis_groups" /\ axis_result.mesh_axes # <<>>)
             => \A q \in 1..Len(axis_result.names) :
                   axis_result.mesh_axes[q]
                       = InnermostBinding(axis_env, axis_result.names[q]))
    /\ [][axis_result'.op = "extend_axis_env"
             => /\ outer_env' = axis_env
                /\ axis_env'.nreps = axis_env.nreps
                /\ Len(axis_env'.names) = Len(axis_env.names) + 1
                /\ SubSeq(axis_env'.names, 1, Len(axis_env.names)) = axis_env.names
                /\ SubSeq(axis_env'.sizes, 1, Len(axis_env.sizes)) = axis_env.sizes]_vars

\* a collective names an axis that has been pushed twice
C19_Witness ==
    /\ axis_result.op = "axis_groups"
    /\ axis_result.status = Ok
    /\ Len(axis_env.names) = 2
    /\ axis_env.names[1] = axis_env.names[2]
    /\ axis_env.sizes[1] # axis_env.sizes[2]
    /\ axis_result.names = <<axis_env.names[2]>>
    /\ axis_result.mesh_axes = <<1>>
    /\ outer_env.names = <<axis_env.names[1]>>

(***************************************************************************)
(* Device values: further claims                                           *)
(***************************************************************************)
\* C20: device_put of a live Device Value whose buffer already resides on the
\* target device returns that same backend buffer without copying, and
\* otherwise returns a new buffer copied to the target device; in both cases
\* the source Device Value's buffer, abstract value and cached host value are
\* left unchanged.
C20_DevicePut ==
    [][\A v \in Values, n \in Devices :
          (device_put(v, n) /\ wrappers[v].device_buffer # NoBuffer)
              => LET b == wrappers[v].device_buffer
                     out == dev_result'.value[1]
                 IN /\ dev_result'.status = Ok
                    /\ Len(dev_result'.value) = 1
                    /\ IF buffers[b].device = n
                       THEN out = b /\ buffers' = buffers
                       ELSE /\ out # b
                            /\ ~buffers[out].allocated
                            /\ buffers'[out].allocated
                            /\ buffers'[out].device = n
                            /\ buffers'[out].data = buffers[b].data
                            /\ \A other \in BufIds \ {out} :
                                  buffers'[other] = buffers[other]
                    /\ wrappers' = wrappers]_vars

\* a live value with a cached host copy has been copied to the other device
C20_Witness ==
    /\ dev_result.op = "device_put"
    /\ dev_result.status = Ok
    /\ ~dev_result.deleted_before
    /\ wrappers[dev_result.self].device_buffer # NoBuffer
    /\ wrappers[dev_result.self].npy_value # NoValue
    /\ dev_result.value[1] # wrappers[dev_result.self].device_buffer
    /\ buffers[dev_result.value[1]].device
          # buffers[wrappers[dev_result.self].device_buffer].device
====
